---- MODULE Spec2Model ----
(***************************************************************************)
(* A model of lib/leadfoot/Server.js: the JsonWireProtocol transport       *)
(* (createHttpRequest / handleResponse) and the capability negotiation     *)
(* (_fixSessionCapabilities: discoverFeatures, discoverDefects,            *)
(* addCapabilities).                                                       *)
(*                                                                         *)
(* JavaScript strings are sequences of tokens, so that indexOf is a real   *)
(* search.  An optional property is <<>> when absent and <<v>> when        *)
(* present.  JSON values are records tagged by the field t.                *)
(***************************************************************************)
EXTENDS Integers, Sequences, FiniteSets, TLC

VARIABLES
    tpc,        \* transport: "idle", "inflight", "responded", "done"
    cmd,        \* transport: the command given to _get/_post/_delete
    reqs,       \* transport: the HTTP requests issued for the command, in order
    resp,       \* transport: the response handleResponse is called with
    result,     \* transport: how the command's promise settled
    phase,      \* negotiation: where the promise chain of _fixSessionCapabilities waits
    reported,   \* negotiation: the capabilities the server reported for the session
    caps,       \* negotiation: session.capabilities
    tested,     \* negotiation: testedCapabilities of the current batch
    keys,       \* negotiation: Object.keys(testedCapabilities) in addCapabilities
    idx,        \* negotiation: i of addCapabilities
    ipc,        \* negotiation: the command each Immediate probe waits for ("" none)
    dpc,        \* negotiation: the command each Deferred probe waits for ("" none)
    issued,     \* negotiation: the session commands issued so far, as <<probe, command>>
    startedD,   \* negotiation: the Deferred probes in the order they were started
    merged,     \* negotiation: the batches whose addCapabilities has resolved
    timer,      \* negotiation: the 2000 ms timer of brokenRefresh
    refresh,    \* negotiation: the refresh operation of brokenRefresh
    quirks,     \* negotiation: how many commands were answered unusually so far
    nav1,       \* negotiation: the initial blank-page navigation
    nav2,       \* negotiation: the trailing blank-page navigation
    outcome     \* negotiation: how the promise of _fixSessionCapabilities settled

tvars == <<tpc, cmd, reqs, resp, result>>
nvars == <<phase, reported, caps, tested, keys, idx, ipc, dpc, issued, startedD,
           merged, timer, refresh, quirks, nav1, nav2, outcome>>

(***************************************************************************)
(* Bounds of the model                                                     *)
(***************************************************************************)
\* the server answers at most this many requests of one command with a redirect
MaxRedirects == 2
\* at most this many probe commands of one negotiation get an answer other than
\* the usual one (an error, or an unusual value)
MaxQuirks == 1

(***************************************************************************)
(* Strings and optional values                                             *)
(***************************************************************************)
None == <<>>
Some(x) == <<x>>
Has(o) == Len(o) > 0
Get(o) == o[1]

\* String.prototype.indexOf(sub) > -1
Contains(s, sub) ==
    \E i \in 0..(Len(s) - Len(sub)) : SubSeq(s, i + 1, i + Len(sub)) = sub

\* String.prototype.indexOf(sub) === 0
StartsWith(s, sub) ==
    Len(s) >= Len(sub) /\ SubSeq(s, 1, Len(sub)) = sub

(***************************************************************************)
(* JSON values                                                             *)
(***************************************************************************)
Undefined == [t |-> "undefined"]
Null == [t |-> "null"]
Obj(st, msg, val, cls, scr, sid) ==
    [t |-> "obj", status |-> st, message |-> msg, value |-> val,
     class |-> cls, screen |-> scr, sessionId |-> sid]

\* the truthiness of a JavaScript value
Truthy(v) == v.t \notin {"undefined", "null"}
\* the truthiness of a string property: present and not ""
StrTruthy(o) == Has(o) /\ Len(Get(o)) > 0
\* obj.value, undefined when the property is absent
ValueOf(data) == IF Has(data.value) THEN Get(data.value) ELSE Undefined

\* JSON.stringify
RECURSIVE Stringify(_)
Stringify(v) ==
    IF v.t = "null" THEN <<"null">>
    ELSE IF v.t = "req" THEN <<"{", v.k, "}">>
    ELSE <<"{">>
         \o (IF Has(v.status) THEN <<"status", ToString(Get(v.status))>> ELSE <<>>)
         \o (IF Has(v.sessionId) THEN <<"sessionId", Get(v.sessionId)>> ELSE <<>>)
         \o (IF Has(v.message) THEN <<"message">> \o Get(v.message) ELSE <<>>)
         \o (IF Has(v.class) THEN <<"class">> \o Get(v.class) ELSE <<>>)
         \o (IF Has(v.screen) THEN <<"screen", Get(v.screen).s>> ELSE <<>>)
         \o (IF Has(v.value) THEN <<"value">> \o Stringify(Get(v.value)) ELSE <<>>)
         \o <<"}">>

(***************************************************************************)
(* Response bodies.  A body is either text that is not JSON (kind "raw",   *)
(* "" included) or the serialisation of a JSON value (kind "json").        *)
(***************************************************************************)
RawText(s) == [kind |-> "raw", s |-> s]
JsonText(v) == [kind |-> "json", v |-> v]

\* response.text as a string
TextStr(text) == IF text.kind = "raw" THEN text.s ELSE Stringify(text.v)
\* the truthiness of response.text
TextTruthy(text) == Len(TextStr(text)) > 0

SyntaxError ==
    [t |-> "error", name |-> "SyntaxError", message |-> <<"Unexpected", "token">>,
     status |-> None, detail |-> Undefined, request |-> None, response |-> None]
TypeError ==
    [t |-> "error", name |-> "TypeError", message |-> <<"Cannot", "read", "property">>,
     status |-> None, detail |-> Undefined, request |-> None, response |-> None]
\* a request that got no HTTP response at all
RequestError ==
    [t |-> "error", name |-> "RequestError", message |-> <<"socket", "hang", "up">>,
     status |-> None, detail |-> Undefined, request |-> None, response |-> None]

Return(v) == [kind |-> "return", v |-> v]
Throw(e) == [kind |-> "throw", v |-> e]

\* JSON.parse
JsonParse(text) ==
    IF text.kind = "json" THEN Return(text.v) ELSE Throw(SyntaxError)

\* new Buffer(s, 'base64')
Base64Decode(s) ==
    CASE s = "aGk=" -> <<104, 105>>
      [] s = "AA==" -> <<0>>
      [] OTHER -> <<>>
Buffer(screen) == [t |-> "buffer", bytes |-> Base64Decode(screen.s)]

(***************************************************************************)
(* ./statusCodes: status code -> <<name, message>>                         *)
(***************************************************************************)
statusCodes ==
    [c \in {7, 9, 13} |->
        CASE c = 7 -> <<"NoSuchElement", <<"element", "could", "not", "be", "located">>>>
          [] c = 9 -> <<"UnknownCommand", <<"resource", "could", "not", "be", "found">>>>
          [] c = 13 -> <<"UnknownError", <<"unknown", "server-side", "error">>>>]

\* statusCodes[status], None when the table has no such key
StatusText(status) ==
    IF Has(status) /\ Get(status) \in DOMAIN statusCodes
    THEN Some(statusCodes[Get(status)]) ELSE None

(***************************************************************************)
(* createHttpRequest: the request                                          *)
(***************************************************************************)
\* Server(url): this.url = url.replace(/\/*$/, '/')
RECURSIVE StripSlashes(_)
StripSlashes(u) ==
    IF Len(u) > 0 /\ u[Len(u)] = "/" THEN StripSlashes(SubSeq(u, 1, Len(u) - 1)) ELSE u
ServerUrl(u) == StripSlashes(u) \o <<"/">>

encodeURIComponent(s) ==
    CASE s = "a b" -> "a%20b"
      [] s = "a/b" -> "a%2Fb"
      [] OTHER -> s

Placeholders == {"$0", "$1", "$2"}
PlaceholderIndex(tok) == CASE tok = "$0" -> 0 [] tok = "$1" -> 1 [] OTHER -> 2
\* pathParts[index], "undefined" when the array has no such element
PathPart(pathParts, index) ==
    IF index + 1 \in DOMAIN pathParts THEN pathParts[index + 1] ELSE "undefined"

\* path.replace(/\$(\d)/, ...): the pattern has no g flag, the first match is replaced
ReplacePath(path, pathParts) ==
    LET hits == {i \in DOMAIN path : path[i] \in Placeholders}
    IN IF hits = {} THEN path
       ELSE LET first == CHOOSE i \in hits : \A j \in hits : i <= j
            IN [path EXCEPT ![first] =
                    encodeURIComponent(PathPart(pathParts, PlaceholderIndex(path[first])))]

RequestUrl(c) == ServerUrl(c.base) \o ReplacePath(c.path, c.pathParts)

AcceptHeader == <<"application/json", ",", "text/plain", ";q=0.9">>
JsonContentType == <<"application/json", ";charset=UTF-8">>
\* Buffer.byteLength(data, 'utf8'): every token of a modelled body is one byte
ByteLength(s) == Len(s)

\* request(url, kwArgs) of the command
FirstRequest(c) ==
    [method |-> c.method, url |-> RequestUrl(c),
     Accept |-> Some(AcceptHeader),
     ContentType |-> IF Has(c.requestData) THEN Some(JsonContentType) ELSE None,
     ContentLength |-> IF Has(c.requestData)
                       THEN Some(ByteLength(Stringify(Get(c.requestData)))) ELSE None,
     data |-> IF Has(c.requestData) THEN Some(Stringify(Get(c.requestData))) ELSE None]

\* request(response.getHeader('Location'), { method: 'GET' })
FollowUpRequest(response) ==
    [method |-> "GET", url |-> Get(response.location),
     Accept |-> None, ContentType |-> None, ContentLength |-> None, data |-> None]

\* a variant that follows 301 alone
IsRedirect_Only301(response) ==
    response.status = 301 /\ Has(response.location)

\* response.status >= 300 && response.status < 400 && response.getHeader('Location')
IsRedirect(response) ==
    /\ response.status >= 300
    /\ response.status < 400
    /\ Has(response.location)

(***************************************************************************)
(* handleResponse on a response that is not followed                       *)
(***************************************************************************)
CannotFindCommand == <<"cannot", "find", "command">>
CommandNotFound == <<"Command", "not", "found">>
UnknownCommandMsg == <<"Unknown", "command">>
UnsupportedOperation == <<"UnsupportedOperationException">>
UnsupportedCommand == <<"UnsupportedCommandException">>

\* responseType && responseType.indexOf('application/json') === 0 && response.text
ParsesBody(response) ==
    /\ Len(response.ctype) > 0
    /\ StartsWith(response.ctype, <<"application/json">>)
    /\ TextTruthy(response.text)

\* the data of a 204 response
NoContentData == Obj(Some(0), None, Some(Null), None, None, Some("null"))

\* response.status >= 400 || (data && data.status > 0)
IsFailure(response, data) ==
    \/ response.status >= 400
    \/ (Truthy(data) /\ Has(data.status) /\ Get(data.status) > 0)

NotFoundOrNotImplemented(response) == response.status = 404 \/ response.status = 501

\* a variant that takes 501 alone for an unknown command when there is no body
SynthesizeData_Forgets404(response, data) ==
    IF ~Truthy(data)
    THEN Obj(Some(IF response.status = 501 THEN 9 ELSE 13), None,
             Some(Obj(None, Some(TextStr(response.text)), None, None, None, None)),
             None, None, None)
    ELSE IF ~Truthy(ValueOf(data)) /\ Has(data.message)
    THEN Obj(Some(IF \/ NotFoundOrNotImplemented(response)
                     \/ Contains(Get(data.message), CannotFindCommand)
                  THEN 9 ELSE 13),
             None, Some(data), None, None, None)
    ELSE data

\* a variant that does not look into the message of a body without value
SynthesizeData_NoSniff(response, data) ==
    IF ~Truthy(data)
    THEN Obj(Some(IF NotFoundOrNotImplemented(response) THEN 9 ELSE 13), None,
             Some(Obj(None, Some(TextStr(response.text)), None, None, None, None)),
             None, None, None)
    ELSE IF ~Truthy(ValueOf(data)) /\ Has(data.message)
    THEN Obj(Some(IF NotFoundOrNotImplemented(response) THEN 9 ELSE 13),
             None, Some(data), None, None, None)
    ELSE data

\* if (!data) ... else if (!data.value && ('message' in data)) ...
SynthesizeData(response, data) ==
    IF ~Truthy(data)
    THEN Obj(Some(IF NotFoundOrNotImplemented(response) THEN 9 ELSE 13), None,
             Some(Obj(None, Some(TextStr(response.text)), None, None, None, None)),
             None, None, None)
    ELSE IF ~Truthy(ValueOf(data)) /\ Has(data.message)
    THEN Obj(Some(IF \/ NotFoundOrNotImplemented(response)
                     \/ Contains(Get(data.message), CannotFindCommand)
                  THEN 9 ELSE 13),
             None, Some(data), None, None, None)
    ELSE data

\* if (response.status === 501 && data.status === 13) data.status = 9
CoerceNotImplemented(response, data) ==
    IF response.status = 501 /\ data.status = Some(13)
    THEN [data EXCEPT !.status = Some(9)] ELSE data

\* if (data.status === 13 && data.value && data.value.class && ...) data.status = 9
CoerceUnsupportedClass(data) ==
    IF /\ data.status = Some(13)
       /\ Truthy(ValueOf(data))
       /\ StrTruthy(ValueOf(data).class)
       /\ \/ Contains(Get(ValueOf(data).class), UnsupportedOperation)
          \/ Contains(Get(ValueOf(data).class), UnsupportedCommand)
    THEN [data EXCEPT !.status = Some(9)] ELSE data

\* response.status === 500 && data.value: data.value.message.indexOf is evaluated
ReadsValueMessage(response, data) ==
    response.status = 500 /\ Truthy(ValueOf(data))

\* if (response.status === 500 && data.value && (...indexOf...)) data.status = 9
CoerceCommandNotFound(response, data) ==
    IF /\ ReadsValueMessage(response, data)
       /\ \/ Contains(Get(ValueOf(data).message), CommandNotFound)
          \/ Contains(Get(ValueOf(data).message), UnknownCommandMsg)
    THEN [data EXCEPT !.status = Some(9)] ELSE data

\* data.value.screen = new Buffer(data.value.screen, 'base64')
DecodeScreen(data) ==
    IF Truthy(ValueOf(data)) /\ Has(ValueOf(data).screen)
    THEN [data EXCEPT !.value =
            Some([ValueOf(data) EXCEPT !.screen = Some(Buffer(Get(ValueOf(data).screen)))])]
    ELSE data

\* '[' + method + ' ' + url + (requestData ? ' / ' + JSON.stringify(requestData) : '') + '] '
MessagePrefix(method, url, requestData) ==
    <<"[", method>> \o url
    \o (IF Has(requestData) THEN <<"/">> \o Stringify(Get(requestData)) ELSE <<>>)
    \o <<"]">>

\* the Error thrown for the coerced data
ProtocolError(response, data, method, url, requestData) ==
    LET statusText == StatusText(data.status)
        name == IF Has(statusText) THEN Get(statusText)[1] ELSE "Error"
        base == IF Has(statusText) THEN Get(statusText)[2] ELSE <<>>
        message == IF Truthy(ValueOf(data)) /\ StrTruthy(ValueOf(data).message)
                   THEN Get(ValueOf(data).message) ELSE base
    IN [t |-> "error", name |-> name,
        message |-> MessagePrefix(method, url, requestData) \o message,
        status |-> data.status,
        detail |-> ValueOf(DecodeScreen(data)),
        request |-> Some([url |-> url, method |-> method, data |-> requestData]),
        response |-> Some(response)]

\* the branch of handleResponse taken for a failure
FailureOutcome(response, data, method, url, requestData) ==
    LET d1 == SynthesizeData(response, data)
        d2 == CoerceNotImplemented(response, d1)
        d3 == CoerceUnsupportedClass(d2)
    IN IF ReadsValueMessage(response, d3) /\ ~Has(ValueOf(d3).message)
       THEN Throw(TypeError)
       ELSE Throw(ProtocolError(response, CoerceCommandNotFound(response, d3),
                                method, url, requestData))

\* handleResponse below the redirect test
HandleTerminal(response, method, url, requestData) ==
    LET parsed == IF ParsesBody(response) THEN JsonParse(response.text)
                  ELSE Return(Undefined)
    IN IF parsed.kind = "throw" THEN parsed
       ELSE IF response.status = 204 THEN Return(NoContentData)
       ELSE IF IsFailure(response, parsed.v)
            THEN FailureOutcome(response, parsed.v, method, url, requestData)
       ELSE Return(parsed.v)

\* returnValue(response): response.value, a TypeError when response is undefined
returnValue(response) ==
    IF Truthy(response) THEN Return(ValueOf(response)) ELSE Throw(TypeError)

\* this._get(...).then(returnValue) of getSessions, getSessionCapabilities and
\* deleteSession, applied to the outcome of the command
ThenReturnValue(settled) ==
    IF settled.kind = "return" THEN returnValue(settled.v) ELSE settled

(***************************************************************************)
(* The commands sent and the responses a server may give                   *)
(***************************************************************************)
Command(method, base, path, requestData, pathParts) ==
    [method |-> method, base |-> base, path |-> path,
     requestData |-> requestData, pathParts |-> pathParts]

Commands ==
    { Command("GET", <<"http://h/wd">>, <<"status">>, None, <<>>),
      Command("POST", <<"http://h/wd", "/">>, <<"session">>,
              Some([t |-> "req", k |-> "desiredCapabilities"]), <<>>),
      Command("DELETE", <<"http://h/wd", "/", "/">>, <<"session/", "$0">>, None, <<"a b">>),
      Command("GET", <<"http://h/wd">>, <<"session/", "$0", "/element/", "$1">>, None,
              <<"a b", "a/b">>) }

Statuses == {200, 204, 302, 404, 500, 501}
ContentTypes == {<<>>, JsonContentType, <<"text/plain">>}
Locations == {None, Some(<<"http://h/wd/session/1">>)}

ValueMessages == {None, Some(<<"oops">>), Some(<<"x">> \o CommandNotFound),
                  Some(UnknownCommandMsg \o <<"y">>)}
ValueClasses == {None, Some(<<"java.lang.", "UnsupportedOperationException">>),
                 Some(<<"org.openqa.", "UnsupportedCommandException">>),
                 Some(<<"java.lang.", "RuntimeException">>)}
ValueObjects ==
    {Obj(None, m, None, c, None, None) : m \in ValueMessages, c \in ValueClasses}
    \cup {Obj(None, Some(<<"oops">>), None, None, Some([t |-> "b64", s |-> "aGk="]), None)}
BodyValues == {None, Some(Null)} \cup {Some(v) : v \in ValueObjects}
BodyStatuses == {None, Some(0), Some(7), Some(9), Some(13), Some(99)}
BodyMessages == {None, Some(<<"oops">>), Some(CannotFindCommand \o <<"X">>)}
BodyObjects ==
    {Obj(st, m, v, None, None, None) :
        st \in BodyStatuses, m \in BodyMessages, v \in BodyValues}
    \cup {Obj(Some(0), None, Some(Null), None, None, Some("s1"))}

Texts ==
    {RawText(<<>>), RawText(<<"not", "json">>), RawText(<<"x">> \o CommandNotFound),
     RawText(UnknownCommandMsg), JsonText(Null)}
    \cup {JsonText(o) : o \in BodyObjects}

Responses ==
    [status : Statuses, location : Locations, ctype : ContentTypes, text : Texts]

NoResponse == [status |-> 0, location |-> None, ctype |-> <<>>, text |-> RawText(<<>>)]
Pending == [kind |-> "pending", v |-> Undefined]

(***************************************************************************)
(* The transport of one command                                            *)
(***************************************************************************)
TInit ==
    /\ tpc = "idle"
    /\ cmd \in Commands
    /\ reqs = <<>>
    /\ resp = NoResponse
    /\ result = Pending

\* this._get / this._post / this._delete: request(url, kwArgs)
SendRequest ==
    /\ tpc = "idle"
    /\ reqs' = <<FirstRequest(cmd)>>
    /\ tpc' = "inflight"
    /\ UNCHANGED <<cmd, resp, result, nvars>>

\* the server answers the request in flight
Respond ==
    /\ tpc = "inflight"
    /\ \E r \in Responses :
        /\ IsRedirect(r) => Len(reqs) <= MaxRedirects
        /\ resp' = r
    /\ tpc' = "responded"
    /\ UNCHANGED <<cmd, reqs, result, nvars>>

\* the request in flight fails without an HTTP response: the first request's
\* promise has no errback; the follow-up's has handleResponse, which calls
\* getHeader on the error
RequestFails ==
    /\ tpc = "inflight"
    /\ result' = IF Len(reqs) = 1 THEN Throw(RequestError) ELSE Throw(TypeError)
    /\ tpc' = "done"
    /\ UNCHANGED <<cmd, reqs, resp, nvars>>

\* handleResponse(response)
HandleResponse ==
    /\ tpc = "responded"
    /\ IF IsRedirect(resp)
       THEN /\ reqs' = Append(reqs, FollowUpRequest(resp))
            /\ tpc' = "inflight"
            /\ resp' = NoResponse
            /\ UNCHANGED result
       ELSE /\ result' = HandleTerminal(resp, cmd.method, RequestUrl(cmd), cmd.requestData)
            /\ tpc' = "done"
            /\ UNCHANGED <<reqs, resp>>
    /\ UNCHANGED <<cmd, nvars>>

TNext == SendRequest \/ Respond \/ RequestFails \/ HandleResponse

vars == <<tvars, nvars>>

(***************************************************************************)
(* _fixSessionCapabilities: capability values and the two catalogs         *)
(*                                                                         *)
(* A capability value is a string: "absent" when the key is not in the     *)
(* map, "true", "false", "null", "[]" and "[logcat]" for the JavaScript    *)
(* values, or a name.  In testedCapabilities "none" marks a key the batch  *)
(* does not hold, "promise" a pending Immediate probe and "thunk" a        *)
(* Deferred probe that was not called yet.                                 *)
(***************************************************************************)
B(b) == IF b THEN "true" ELSE "false"
\* the truthiness of a capability value
JsTruthy(v) == v \notin {"absent", "false", "null"}

\* the keys of testedCapabilities in discoverFeatures, in the order they are set
FeatureCatalog ==
    <<"rotatable", "locationContextEnabled", "webStorageEnabled",
      "applicationCacheEnabled", "takesScreenshot", "supportsExecuteAsync",
      "mouseEnabled", "touchEnabled", "dynamicViewport",
      "supportsNavigationDataUris", "supportsCssTransforms">>

\* the keys of testedCapabilities in discoverDefects, in the order they are set
DefectCatalog ==
    <<"brokenDeleteCookie", "brokenHtmlTagName", "brokenNullGetAttribute",
      "brokenExecuteElementReturn", "brokenElementDisplayedOpacity", "fixedLogTypes",
      "brokenWindowSwitch", "brokenDoubleClick", "brokenLongTap", "brokenMoveFinger",
      "brokenTouchScroll", "brokenFlickFinger", "brokenElementPosition",
      "brokenRefresh", "brokenCssTransformedSize">>

\* the keys whose value is a function
Thunks ==
    {"supportsNavigationDataUris", "supportsCssTransforms", "brokenDeleteCookie",
     "brokenExecuteElementReturn", "brokenElementDisplayedOpacity", "brokenDoubleClick",
     "brokenTouchScroll", "brokenFlickFinger", "brokenElementPosition", "brokenRefresh",
     "brokenCssTransformedSize"}

\* the literal returned by discoverFeatures for safari on MAC, in key order
SafariFeatures ==
    << <<"nativeEvents", "false">>, <<"rotatable", "false">>,
       <<"locationContextEnabled", "false">>, <<"webStorageEnabled", "false">>,
       <<"applicationCacheEnabled", "false">>, <<"supportsNavigationDataUris", "true">>,
       <<"supportsCssTransforms", "true">>, <<"supportsExecuteAsync", "true">>,
       <<"mouseEnabled", "true">>, <<"touchEnabled", "false">>,
       <<"dynamicViewport", "true">> >>

\* the literal returned by discoverDefects for safari on MAC, in key order
SafariDefects ==
    << <<"brokenDeleteCookie", "false">>, <<"brokenExecuteElementReturn", "false">>,
       <<"brokenElementDisplayedOpacity", "false">>, <<"brokenWindowSwitch", "true">>,
       <<"brokenDoubleClick", "false">>, <<"brokenCssTransformedSize", "true">>,
       <<"fixedLogTypes", "false">>, <<"brokenHtmlTagName", "false">>,
       <<"brokenNullGetAttribute", "false">>, <<"brokenNavigation", "true">>,
       <<"brokenMouseEvents", "true">>, <<"brokenWindowPosition", "true">>,
       <<"brokenSendKeys", "true">>, <<"brokenSubmitElement", "true">> >>

Range(seq) == {seq[n] : n \in DOMAIN seq}
IdentityKeys == {"browserName", "platform", "platformName", "initialBrowserUrl"}
Keys ==
    IdentityKeys \cup Range(FeatureCatalog) \cup Range(DefectCatalog)
    \cup {p[1] : p \in Range(SafariFeatures)} \cup {p[1] : p \in Range(SafariDefects)}

\* capabilities.browserName === 'safari' && capabilities.platform === 'MAC'
IsSafariMac(c) == c["browserName"] = "safari" /\ c["platform"] = "MAC"

\* a discoverFeatures that probes every feature whatever the server reported
InFeatureCatalog_Unguarded(key, c) == TRUE

\* whether discoverFeatures sets testedCapabilities[key]
InFeatureCatalog(key, c) ==
    CASE key \in {"rotatable", "mouseEnabled", "touchEnabled", "dynamicViewport"} ->
            c[key] = "absent"
      [] key \in {"locationContextEnabled", "webStorageEnabled",
                  "applicationCacheEnabled"} -> JsTruthy(c[key])
      [] OTHER -> TRUE

\* a discoverDefects that sets every probe whatever the merged features say
InDefectCatalog_Ungated(key, c) == TRUE

\* whether discoverDefects sets testedCapabilities[key]
InDefectCatalog(key, c) ==
    CASE key = "brokenDoubleClick" -> JsTruthy(c["mouseEnabled"])
      [] key \in {"brokenLongTap", "brokenMoveFinger", "brokenTouchScroll",
                  "brokenFlickFinger", "brokenElementPosition", "brokenRefresh"} ->
            JsTruthy(c["touchEnabled"])
      [] key = "brokenCssTransformedSize" -> JsTruthy(c["supportsCssTransforms"])
      [] OTHER -> TRUE

\* session.capabilities.browserName === 'Safari' && ...platformName === 'IOS'
BrokenWindowSwitch(c) == B(c["browserName"] = "Safari" /\ c["platformName"] = "IOS")

(***************************************************************************)
(* The errors a session command can fail with, as the probes' handlers     *)
(* see them: name, message and error.response.text ("none" when the error  *)
(* has no response, as the SyntaxError and TypeError of handleResponse)    *)
(***************************************************************************)
CmdError(name, message, text) == [name |-> name, message |-> message, text |-> text]
NoError == CmdError("", <<>>, "none")
NotMapped == <<"not mapped : GET_LOCATION">>
BugUnknownProtocol == <<"bug.unknown protocol">>
NeedJS == <<"need to specify the JS">>
CmdErrors ==
    { CmdError("UnknownCommand", <<"[", "POST", "]", "no", "such", "command">>, "some"),
      CmdError("UnknownError", <<"[", "POST", "]", "failed">>, "some"),
      CmdError("UnknownError", <<"[", "GET", "]", "failed">>, "empty"),
      CmdError("UnknownError", <<"[", "GET", "]", "command">> \o NotMapped, "some"),
      CmdError("UnknownError", <<"[", "DELETE", "]">> \o BugUnknownProtocol, "some"),
      CmdError("UnknownError", <<"[", "POST", "]", "you">> \o NeedJS, "some"),
      CmdError("SyntaxError", <<"Unexpected", "token">>, "none") }
\* the TypeError thrown by a probe's own callback on a value it cannot read
CallbackTypeError == CmdError("TypeError", <<"Cannot", "read", "property">>, "none")

Reply(ok, v, e) == [ok |-> ok, v |-> v, e |-> e]

\* the values a command may resolve to; the first one is the usual answer
OkValues(key, pc) ==
    CASE pc = "executeAsync" -> <<"true", "false", "null">>
      [] pc = "getWindowSize" -> <<"size", "null">>
      [] pc = "getPageTitle" -> <<"a", "other">>
      [] pc = "getCookies" -> <<"[]", "[c]", "null">>
      [] pc = "getTagName" -> <<"body", "BODY">>
      [] pc = "getAttribute" -> <<"null", "empty">>
      [] pc = "isDisplayed" -> <<"false", "true">>
      [] pc = "getPosition" -> <<"3000,3000", "0,0", "null">>
      [] pc = "getSize" -> <<"4x4", "8x8", "null">>
      [] pc = "execute:counter" -> <<"6", "0", "3">>
      [] pc = "execute:element" -> <<"element", "null", "string">>
      [] pc = "execute:bbox" -> <<"true", "false">>
      [] pc \in {"execute:scrollY1", "execute:scrollY2", "execute:scrollY"} ->
            <<"false", "true", "null">>
      [] OTHER -> <<"ok">>

UsualReply(key, pc) == Reply(TRUE, OkValues(key, pc)[1], NoError)
\* what the session may answer to the command a probe waits for; util.sleep
\* is a timer and always resolves
Replies(key, pc) ==
    IF pc = "sleep" THEN {UsualReply(key, pc)}
    ELSE {Reply(TRUE, v, NoError) : v \in Range(OkValues(key, pc))}
         \cup {Reply(FALSE, "", e) : e \in CmdErrors}

(***************************************************************************)
(* The probes.  A running probe waits for the answer to one command, named *)
(* by its pc; a step maps the answer to the next command (Go), to the      *)
(* probe's value (Fin) or to the rejection of the probe's promise (Rej).   *)
(***************************************************************************)
Go(pc) == [pc |-> pc, val |-> "", rej |-> FALSE]
Fin(v) == [pc |-> "", val |-> v, rej |-> FALSE]
Rej == [pc |-> "", val |-> "", rej |-> TRUE]

\* a get(page) that always navigates to the data: URI
GetPc_AlwaysData(c) == "get:data"

\* get(page): the first command of the page load
GetPc(c) ==
    IF c["supportsNavigationDataUris"] # "false" THEN "get:data" ELSE "get:blank"
PageLoads == {"get:data", "get:blank", "execute:write"}
\* get(page) resolved one command: the command after it, `after` when the page is loaded
PageLoaded(pc, after) == IF pc = "get:blank" THEN Go("execute:write") ELSE Go(after)

\* the command a probe issues when it is started
FirstPc(key, c) ==
    CASE key = "rotatable" -> "getOrientation"
      [] key = "locationContextEnabled" -> "getGeolocation"
      [] key = "webStorageEnabled" -> "getLocalStorageLength"
      [] key = "applicationCacheEnabled" -> "getApplicationCacheStatus"
      [] key = "takesScreenshot" -> "takeScreenshot"
      [] key = "supportsExecuteAsync" -> "executeAsync"
      [] key = "mouseEnabled" -> "doubleClick"
      [] key = "touchEnabled" -> "longTap"
      [] key = "dynamicViewport" -> "getWindowSize"
      [] key = "brokenDeleteCookie" -> "get:initialBrowserUrl"
      [] key \in {"brokenHtmlTagName", "brokenNullGetAttribute", "brokenLongTap"} ->
            "getElementByTagName"
      [] key = "fixedLogTypes" -> "getAvailableLogTypes"
      [] key = "brokenMoveFinger" -> "pressFinger"
      [] key = "brokenRefresh" -> "get:about:blank?1"
      [] OTHER -> GetPc(c)

\* the rejection handler of the probe, called with error e while it waits at pc
Caught(key, pc, e, c) ==
    CASE key \in {"rotatable", "takesScreenshot", "supportsExecuteAsync",
                  "dynamicViewport", "supportsNavigationDataUris",
                  "supportsCssTransforms"} -> Fin("false")
      [] key = "locationContextEnabled" ->
            Fin(B(e.name # "UnknownCommand" /\ ~Contains(e.message, NotMapped)))
      [] key \in {"webStorageEnabled", "applicationCacheEnabled", "mouseEnabled",
                  "touchEnabled"} -> Fin(B(e.name # "UnknownCommand"))
      [] key = "brokenDeleteCookie" ->
            IF pc = "clearCookies:true" THEN Fin("true")
            ELSE IF pc = "clearCookies:false" THEN Fin("false")
            ELSE Go("clearCookies:" \o B(~Contains(e.message, BugUnknownProtocol)))
      [] key = "fixedLogTypes" ->
            IF c["browserName"] = "selendroid"
            THEN IF e.text = "none" THEN Rej
                 ELSE IF e.text = "empty" THEN Fin("[logcat]") ELSE Fin("[]")
            ELSE Fin("[]")
      [] key = "brokenMoveFinger" ->
            Fin(B(e.name = "UnknownCommand" \/ Contains(e.message, NeedJS)))
      [] OTHER -> Fin("true")

\* the fulfilment handler of the probe, called with value v while it waits at pc
Advance(key, pc, v, c) ==
    CASE key \in {"rotatable", "locationContextEnabled", "webStorageEnabled",
                  "applicationCacheEnabled", "takesScreenshot", "mouseEnabled",
                  "touchEnabled"} -> Fin("true")
      [] key = "supportsExecuteAsync" -> Fin(v)
      [] key = "dynamicViewport" ->
            IF pc = "getWindowSize"
            THEN IF v = "null" THEN Caught(key, pc, CallbackTypeError, c)
                 ELSE Go("setWindowSize")
            ELSE Fin("true")
      [] key = "supportsNavigationDataUris" ->
            IF pc \in PageLoads THEN PageLoaded(pc, "getPageTitle")
            ELSE Fin(B(v = "a"))
      [] key = "supportsCssTransforms" ->
            IF pc \in PageLoads THEN PageLoaded(pc, "execute:bbox")
            ELSE Fin(v)
      [] key = "brokenDeleteCookie" ->
            CASE pc = "get:initialBrowserUrl" -> Go("clearCookies")
              [] pc = "clearCookies" -> Go("setCookie")
              [] pc = "setCookie" -> Go("deleteCookie")
              [] pc = "deleteCookie" -> Go("getCookies")
              [] pc = "getCookies" ->
                    IF v = "null" THEN Caught(key, pc, CallbackTypeError, c)
                    ELSE Go("clearCookies:" \o B(v # "[]"))
              [] pc = "clearCookies:true" -> Fin("true")
              [] OTHER -> Fin("false")
      [] key = "brokenHtmlTagName" ->
            IF pc = "getElementByTagName" THEN Go("getTagName") ELSE Fin(B(v # "body"))
      [] key = "brokenNullGetAttribute" ->
            IF pc = "getElementByTagName" THEN Go("getAttribute") ELSE Fin(B(v # "null"))
      [] key = "brokenExecuteElementReturn" ->
            IF pc \in PageLoads THEN PageLoaded(pc, "execute:element")
            ELSE IF pc = "execute:element"
            THEN CASE v = "null" -> Fin("false")
                   [] v = "element" -> Go("getTagName")
                   [] OTHER -> Caught(key, pc, CallbackTypeError, c)
            ELSE Fin("false")
      [] key = "brokenElementDisplayedOpacity" ->
            IF pc \in PageLoads THEN PageLoaded(pc, "getElementById")
            ELSE IF pc = "getElementById" THEN Go("isDisplayed")
            ELSE Fin(v)
      [] key = "fixedLogTypes" -> Fin("false")
      [] key = "brokenDoubleClick" ->
            IF pc \in PageLoads THEN PageLoaded(pc, "getElementByTagName")
            ELSE CASE pc = "getElementByTagName" -> Go("moveMouseTo")
                   [] pc = "moveMouseTo" -> Go("sleep")
                   [] pc = "sleep" -> Go("doubleClick")
                   [] pc = "doubleClick" -> Go("execute:counter")
                   [] OTHER -> IF v = "0" THEN Go(GetPc(c)) ELSE Fin(B(v # "6"))
      [] key = "brokenLongTap" ->
            IF pc = "getElementByTagName" THEN Go("longTap") ELSE Fin("false")
      [] key = "brokenMoveFinger" -> Fin("false")
      [] key = "brokenTouchScroll" ->
            IF pc \in PageLoads THEN PageLoaded(pc, "touchScroll1")
            ELSE CASE pc = "touchScroll1" -> Go("execute:scrollY1")
                   [] pc = "execute:scrollY1" ->
                        IF JsTruthy(v) THEN Fin("true") ELSE Go("getElementById")
                   [] pc = "getElementById" -> Go("touchScroll2")
                   [] pc = "touchScroll2" -> Go("execute:scrollY2")
                   [] OTHER -> Fin(v)
      [] key = "brokenFlickFinger" ->
            IF pc \in PageLoads THEN PageLoaded(pc, "flickFinger")
            ELSE IF pc = "flickFinger" THEN Go("execute:scrollY")
            ELSE Fin(v)
      [] key = "brokenElementPosition" ->
            IF pc \in PageLoads THEN PageLoaded(pc, "getElementById")
            ELSE IF pc = "getElementById" THEN Go("getPosition")
            ELSE IF v = "null" THEN Caught(key, pc, CallbackTypeError, c)
            ELSE Fin(B(v # "3000,3000"))
      [] key = "brokenRefresh" ->
            IF pc = "get:about:blank?1" THEN Go("refresh") ELSE Fin("false")
      [] OTHER ->  \* brokenCssTransformedSize
            IF pc \in PageLoads THEN PageLoaded(pc, "execute:element")
            ELSE IF pc = "execute:element"
            THEN IF v = "element" THEN Go("getSize")
                 ELSE Caught(key, pc, CallbackTypeError, c)
            ELSE IF v = "null" THEN Caught(key, pc, CallbackTypeError, c)
            ELSE Fin(B(v # "4x4"))

\* the probe's reaction to the answer r of the command it waits for
Step(key, pc, r, c) ==
    IF r.ok THEN Advance(key, pc, r.v, c) ELSE Caught(key, pc, r.e, c)

(***************************************************************************)
(* The promise chain of _fixSessionCapabilities.  dojo promises call their *)
(* callbacks synchronously, so the answer to one command runs the chain up *)
(* to the next command it has to wait for.  The operators below work on a  *)
(* record m of the negotiation's variables.                                *)
(***************************************************************************)
M ==
    [phase |-> phase, caps |-> caps, tested |-> tested, keys |-> keys, idx |-> idx,
     ipc |-> ipc, dpc |-> dpc, issued |-> issued, startedD |-> startedD,
     merged |-> merged, timer |-> timer, refresh |-> refresh]

\* (the record is bound to n so that it is computed once)
Install(m) ==
    \E n \in {m} :
        /\ phase' = n.phase
        /\ caps' = n.caps
        /\ tested' = n.tested
        /\ keys' = n.keys
        /\ idx' = n.idx
        /\ ipc' = n.ipc
        /\ dpc' = n.dpc
        /\ issued' = n.issued
        /\ startedD' = n.startedD
        /\ merged' = n.merged
        /\ timer' = n.timer
        /\ refresh' = n.refresh

\* a session command is issued for a probe; util.sleep is no command
Issue(m, key, pc) ==
    IF pc = "sleep" THEN m ELSE [m EXCEPT !.issued = @ \cup {<<key, pc>>}]

\* the callback given to always: session.get('about:blank')
Always(m) == [Issue(m, "nav2", "get:about:blank") EXCEPT !.phase = "nav2"]

\* value(): a Deferred probe is called
StartDeferred(m, key) ==
    [Issue(m, key, FirstPc(key, m.caps)) EXCEPT
        !.dpc[key] = FirstPc(key, m.caps), !.startedD = Append(@, key)]

\* the probes whose value in testedCapabilities is a promise
IsImmediate(key) == key \notin Thunks /\ key # "brokenWindowSwitch"

\* the probes of testedCapabilities t that are started when the batch is built
StartImmediates(m, t) ==
    [m EXCEPT !.tested = t,
              !.ipc = [k \in Keys |-> IF t[k] = "promise" THEN FirstPc(k, m.caps)
                                      ELSE m.ipc[k]],
              !.issued = @ \cup {<<k, FirstPc(k, m.caps)>> : k \in {j \in Keys : t[j] = "promise"}}]

\* Object.keys of the object whenAll resolves to: the values that are no promises
\* are set while whenAll is called, the promises' values as they settle (all of
\* them are assigned by the same run of next(), taken here in catalog order)
KeyOrder(catalog, t) ==
    SelectSeq(catalog, LAMBDA k : t[k] # "none" /\ ~IsImmediate(k))
    \o SelectSeq(catalog, LAMBDA k : t[k] # "none" /\ IsImmediate(k))

\* a literal of <<key, value>> pairs as testedCapabilities
OfLiteral(pairs) ==
    [k \in Keys |-> IF \E n \in DOMAIN pairs : pairs[n][1] = k
                    THEN pairs[CHOOSE n \in DOMAIN pairs : pairs[n][1] = k][2]
                    ELSE "none"]
LiteralKeys(pairs) == [n \in DOMAIN pairs |-> pairs[n][1]]

\* whenAll resolving as soon as one of the promises has settled
AllSettled_First(t) == \E k \in Keys : t[k] \notin {"none", "promise", "thunk"}

\* whenAll has every value: no promise of testedCapabilities is pending
AllSettled(t) == \A k \in Keys : t[k] # "promise"

RECURSIVE AddNext(_)

\* whenAll(testedCapabilities) followed by then(addCapabilities)
WhenAll(m, catalog) ==
    IF AllSettled(m.tested)
    THEN AddNext([m EXCEPT !.phase = IF m.phase = "whenAllF" THEN "addF" ELSE "addD",
                           !.keys = KeyOrder(catalog, m.tested), !.idx = 1])
    ELSE m

\* discoverDefects, called when addCapabilities of the features has resolved
DiscoverDefects(m) ==
    IF IsSafariMac(m.caps)
    THEN AddNext([m EXCEPT !.phase = "addD", !.tested = OfLiteral(SafariDefects),
                           !.keys = LiteralKeys(SafariDefects), !.idx = 1])
    ELSE WhenAll(
            StartImmediates([m EXCEPT !.phase = "whenAllD"],
                [k \in Keys |->
                    IF k \in Range(DefectCatalog) /\ InDefectCatalog(k, m.caps)
                    THEN IF k \in Thunks THEN "thunk"
                         ELSE IF k = "brokenWindowSwitch" THEN BrokenWindowSwitch(m.caps)
                         ELSE "promise"
                    ELSE "none"]),
            DefectCatalog)

\* next() of addCapabilities (the record is bound to n so that it is computed once)
AddNext(m) ==
    CHOOSE after \in
        { IF n.idx > Len(n.keys)
          THEN IF n.phase = "addF"
               THEN DiscoverDefects([n EXCEPT !.merged = @ \cup {"features"}])
               ELSE Always([n EXCEPT !.merged = @ \cup {"defects"}])
          ELSE IF n.tested[n.keys[n.idx]] = "thunk"
               THEN StartDeferred([n EXCEPT !.idx = @ + 1], n.keys[n.idx])
               ELSE AddNext([n EXCEPT !.idx = @ + 1,
                                      !.caps[n.keys[n.idx]] = n.tested[n.keys[n.idx]]])
          : n \in {m} } : TRUE

\* discoverFeatures, called when the initial navigation has succeeded
DiscoverFeatures(m) ==
    IF IsSafariMac(m.caps)
    THEN AddNext([m EXCEPT !.phase = "addF", !.tested = OfLiteral(SafariFeatures),
                           !.keys = LiteralKeys(SafariFeatures), !.idx = 1])
    ELSE WhenAll(
            StartImmediates([m EXCEPT !.phase = "whenAllF"],
                [k \in Keys |->
                    IF k \in Range(FeatureCatalog) /\ InFeatureCatalog(k, m.caps)
                    THEN IF k \in Thunks THEN "thunk" ELSE "promise"
                    ELSE "none"]),
            FeatureCatalog)

\* the callbacks addCapabilities gives to value().then: the value is stored and
\* next() is called, or dfd is rejected and the chain runs on to always
DeferredSettled(m, key, st) ==
    IF st.rej THEN Always([m EXCEPT !.dpc[key] = ""])
    ELSE AddNext([m EXCEPT !.dpc[key] = "", !.caps[key] = st.val])

\* an always callback that resolved to the session whatever the navigation did
AlwaysOutcome_Swallow(ok) == "session"

\* the outcome of the chain, decided by the callback given to always
AlwaysOutcome(ok) == IF ok THEN "session" ELSE "error"

(***************************************************************************)
(* The sessions negotiated: the capabilities the server reports            *)
(***************************************************************************)
Reported(pairs) ==
    [k \in Keys |-> IF \E p \in pairs : p[1] = k
                    THEN (CHOOSE p \in pairs : p[1] = k)[2] ELSE "absent"]

Profiles ==
    { Reported({<<"browserName", "chrome">>, <<"platform", "ANY">>}),
      Reported({<<"browserName", "firefox">>, <<"platform", "ANY">>,
                <<"locationContextEnabled", "true">>, <<"webStorageEnabled", "true">>,
                <<"applicationCacheEnabled", "true">>, <<"rotatable", "false">>,
                <<"mouseEnabled", "true">>, <<"touchEnabled", "false">>,
                <<"dynamicViewport", "true">>, <<"takesScreenshot", "true">>}),
      Reported({<<"browserName", "safari">>, <<"platform", "MAC">>,
                <<"takesScreenshot", "true">>, <<"rotatable", "true">>,
                <<"webStorageEnabled", "true">>, <<"brokenNavigation", "false">>}),
      Reported({<<"browserName", "selendroid">>, <<"platform", "ANDROID">>,
                <<"locationContextEnabled", "false">>,
                <<"rotatable", "true">>, <<"mouseEnabled", "false">>,
                <<"touchEnabled", "true">>, <<"dynamicViewport", "false">>,
                <<"initialBrowserUrl", "http://h/">>}),
      Reported({<<"browserName", "Safari">>, <<"platformName", "IOS">>,
                <<"mouseEnabled", "false">>, <<"touchEnabled", "false">>,
                <<"dynamicViewport", "false">>, <<"webStorageEnabled", "true">>,
                <<"supportsNavigationDataUris", "false">>}) }

(***************************************************************************)
(* The negotiation of one session                                          *)
(***************************************************************************)
NInit ==
    /\ phase = "start"
    /\ reported \in Profiles
    /\ caps = reported
    /\ tested = [k \in Keys |-> "none"]
    /\ keys = <<>>
    /\ idx = 1
    /\ ipc = [k \in Keys |-> ""]
    /\ dpc = [k \in Keys |-> ""]
    /\ issued = {}
    /\ startedD = <<>>
    /\ merged = {}
    /\ timer = "unset"
    /\ refresh = "none"
    /\ quirks = 0
    /\ nav1 = "none"
    /\ nav2 = "none"
    /\ outcome = "pending"

\* _fixSessionCapabilities(session): session.get('about:blank')
FixSessionCapabilities ==
    /\ phase = "start"
    /\ Install([Issue(M, "nav1", "get:about:blank") EXCEPT !.phase = "nav1"])
    /\ nav1' = "pending"
    /\ UNCHANGED <<reported, quirks, nav2, outcome, tvars>>

\* the initial navigation settles: then(discoverFeatures)..., or the rejection
\* passes the four then callbacks and reaches always
InitialNavigationSettles ==
    /\ phase = "nav1"
    /\ \E ok \in BOOLEAN :
        /\ nav1' = IF ok THEN "ok" ELSE "failed"
        /\ Install(IF ok THEN DiscoverFeatures(M) ELSE Always(M))
    /\ nav2' = IF phase' = "nav2" THEN "pending" ELSE nav2
    /\ UNCHANGED <<reported, quirks, outcome, tvars>>

\* the counter of brokenDoubleClick read as 0: the race the probe retries on
ZeroCounter == Reply(TRUE, "0", NoError)

\* whether the answer r is the usual one; the zero counter is an answer the
\* probe expects of a working driver and counts as usual
Cost(key, pc, r) ==
    IF r = UsualReply(key, pc) \/ (pc = "execute:counter" /\ r = ZeroCounter) THEN 0 ELSE 1

\* the whenAll of the batch in progress has not settled yet
WhenAllPending(m) == m.phase \in {"whenAllF", "whenAllD"}

\* the command of an Immediate probe is answered
ImmediateSettles ==
    /\ \E k \in Keys :
        /\ ipc[k] # ""
        /\ \E r \in Replies(k, ipc[k]) :
            /\ quirks + Cost(k, ipc[k], r) <= MaxQuirks
            /\ quirks' = quirks + Cost(k, ipc[k], r)
            /\ LET st == Step(k, ipc[k], r, caps)
               IN Install(
                    IF st.pc # "" THEN Issue([M EXCEPT !.ipc[k] = st.pc], k, st.pc)
                    ELSE IF ~WhenAllPending(M) THEN [M EXCEPT !.ipc[k] = ""]
                    ELSE IF st.rej THEN Always([M EXCEPT !.ipc[k] = ""])
                    ELSE WhenAll([M EXCEPT !.ipc[k] = "", !.tested[k] = st.val],
                                 IF phase = "whenAllF" THEN FeatureCatalog
                                 ELSE DefectCatalog))
    /\ nav2' = IF phase' = "nav2" /\ phase # "nav2" THEN "pending" ELSE nav2
    /\ UNCHANGED <<reported, nav1, outcome, tvars>>

\* a cleanup() that forgot clearTimeout
RefreshRace_LeavesTimer(m, key, pc, st) ==
    IF key = "brokenRefresh" /\ st.pc = "refresh"
    THEN [m EXCEPT !.timer = "scheduled", !.refresh = "pending"]
    ELSE IF key = "brokenRefresh" /\ pc = "refresh"
    THEN [m EXCEPT !.refresh = IF st.val = "false" THEN "resolved" ELSE "rejected"]
    ELSE m

\* brokenRefresh: session.refresh() is called and the timer is set; the refresh
\* settles and cleanup() clears the timer
RefreshRace(m, key, pc, st) ==
    IF key = "brokenRefresh" /\ st.pc = "refresh"
    THEN [m EXCEPT !.timer = "scheduled", !.refresh = "pending"]
    ELSE IF key = "brokenRefresh" /\ pc = "refresh"
    THEN [m EXCEPT !.timer = "cleared",
                   !.refresh = IF st.val = "false" THEN "resolved" ELSE "rejected"]
    ELSE m

\* the command of the running Deferred probe is answered
DeferredSettles ==
    /\ \E k \in Keys :
        /\ dpc[k] # ""
        /\ \E r \in Replies(k, dpc[k]) :
            /\ quirks + Cost(k, dpc[k], r) <= MaxQuirks
            /\ quirks' = quirks + Cost(k, dpc[k], r)
            /\ LET st == Step(k, dpc[k], r, caps)
                   m == RefreshRace(M, k, dpc[k], st)
               IN Install(
                    IF st.pc # "" THEN Issue([m EXCEPT !.dpc[k] = st.pc], k, st.pc)
                    ELSE DeferredSettled(m, k, st))
    /\ nav2' = IF phase' = "nav2" /\ phase # "nav2" THEN "pending" ELSE nav2
    /\ UNCHANGED <<reported, nav1, outcome, tvars>>

\* a timer whose cleanup() cancels a refresh that does not reject on cancel
TimerFires_NoCancel ==
    /\ dpc["brokenRefresh"] = "refresh"
    /\ timer = "scheduled"
    /\ timer' = "fired"
    /\ UNCHANGED <<phase, reported, caps, tested, keys, idx, ipc, dpc, issued, startedD,
                   merged, refresh, quirks, nav1, nav2, outcome, tvars>>

\* brokenRefresh: the timer fires before the refresh has settled; cleanup()
\* cancels the refresh, whose errback resolves the probe
TimerFires ==
    /\ dpc["brokenRefresh"] = "refresh"
    /\ timer = "scheduled"
    /\ Install(DeferredSettled(
            [M EXCEPT !.timer = "fired", !.refresh = "cancelled"], "brokenRefresh",
            Caught("brokenRefresh", "refresh",
                   CmdError("CancelError", <<"Request", "canceled">>, "none"), caps)))
    /\ nav2' = IF phase' = "nav2" /\ phase # "nav2" THEN "pending" ELSE nav2
    /\ UNCHANGED <<reported, quirks, nav1, outcome, tvars>>

\* the trailing navigation settles: the session is logged and returned, or the
\* promise returned by the always callback is rejected
TrailingNavigationSettles ==
    /\ phase = "nav2"
    /\ \E ok \in BOOLEAN :
        /\ nav2' = IF ok THEN "ok" ELSE "failed"
        /\ outcome' = AlwaysOutcome(ok)
    /\ phase' = "done"
    /\ UNCHANGED <<reported, caps, tested, keys, idx, ipc, dpc, issued, startedD,
                   merged, timer, refresh, quirks, nav1, tvars>>

Next ==
    \/ FixSessionCapabilities
    \/ InitialNavigationSettles
    \/ ImmediateSettles
    \/ DeferredSettles
    \/ TimerFires
    \/ TrailingNavigationSettles

\* the transport is idle while a session is negotiated
TIdle ==
    /\ tpc = "idle"
    /\ cmd = Command("POST", <<"http://h/wd">>, <<"session">>,
                     Some([t |-> "req", k |-> "desiredCapabilities"]), <<>>)
    /\ reqs = <<>>
    /\ resp = NoResponse
    /\ result = Pending

\* no session is negotiated while the transport of a command is examined
NIdle ==
    /\ NInit
    /\ reported = Reported({<<"browserName", "chrome">>, <<"platform", "ANY">>})

Init == TIdle /\ NInit
Spec == Init /\ [][Next]_vars

\* the timer of brokenRefresh fires 2000 ms after it was set unless it is cleared;
\* nothing is assumed of the session's answers
SpecTimer == Spec /\ WF_vars(TimerFires)

\* every command is answered and every timer fires
SpecFair ==
    /\ Spec
    /\ WF_vars(FixSessionCapabilities)
    /\ WF_vars(InitialNavigationSettles)
    /\ WF_vars(ImmediateSettles)
    /\ WF_vars(DeferredSettles)
    /\ WF_vars(TimerFires)
    /\ WF_vars(TrailingNavigationSettles)

HttpInit == TInit /\ NIdle
SpecHttp == HttpInit /\ [][TNext]_vars


(***************************************************************************)
(* Properties of the transport (checked under SpecHttp)                    *)
(***************************************************************************)
\* handleResponse has settled the command on the terminal response resp
Settled == tpc = "done" /\ resp # NoResponse
Failed == result.kind = "throw"
Succeeded == result.kind = "return"
\* the command failed with an error object built by handleResponse for `status`
FailedWithStatus(status) ==
    Failed /\ result.v.status = Some(status) /\ Has(result.v.request)

\* C2: a terminal response with HTTP status 204 makes the command succeed with
\* {status: 0, value: null}, whatever its content type and body are.
C2_NoContentSucceeds ==
    (Settled /\ resp.status = 204)
        => (Succeeded /\ result.v.t = "obj" /\ result.v.status = Some(0)
            /\ result.v.value = Some(Null))

\* C3 as stated: HTTP status >= 400 without a parseable JSON body fails with
\* status 9 for 404 and 501 and with status 13 for every other HTTP status.
C3_UnparsedFailureStatus ==
    (Settled /\ resp.status >= 400 /\ ~ParsesBody(resp))
        => FailedWithStatus(IF resp.status \in {404, 501} THEN 9 ELSE 13)

\* the raw body text names an unknown command in the words the HTTP 500 rule looks for
TextNamesUnknownCommand(text) ==
    \/ Contains(TextStr(text), <<"Command", "not", "found">>)
    \/ Contains(TextStr(text), <<"Unknown", "command">>)

\* C3 amended: HTTP status >= 400 without a parseable JSON body fails with status
\* 9 for 404 and 501, and also for 500 when the raw body text contains "Command
\* not found" or "Unknown command"; with status 13 otherwise.
C3_UnparsedFailureStatusAmended ==
    (Settled /\ resp.status >= 400 /\ ~ParsesBody(resp))
        => FailedWithStatus(
              IF \/ resp.status \in {404, 501}
                 \/ (resp.status = 500 /\ TextNamesUnknownCommand(resp.text))
              THEN 9 ELSE 13)

C3_Witness ==
    /\ Settled /\ resp.status = 500 /\ ~ParsesBody(resp)
    /\ TextNamesUnknownCommand(resp.text)
    /\ FailedWithStatus(9)

\* a JSON body {message: "... cannot find command ..."} without value and status
IsBareMessageBody(response) ==
    /\ ParsesBody(response)
    /\ response.text.kind = "json"
    /\ response.text.v.t = "obj"
    /\ ~Has(response.text.v.value)
    /\ ~Has(response.text.v.status)
    /\ Has(response.text.v.message)
    /\ Contains(Get(response.text.v.message), <<"cannot", "find", "command">>)

\* C4 as stated: under HTTP 200 a body {message: "cannot find command ..."} fails
\* the command with status 9.
C4_MessageSniffedUnder200 ==
    (Settled /\ resp.status = 200 /\ IsBareMessageBody(resp)) => FailedWithStatus(9)

\* C4 amended: such a body fails the command with status 9 (UnknownCommand) when
\* the HTTP status is >= 400; under HTTP 200 the response is no failure and the
\* command succeeds with the body as it was sent.
C4_MessageSniffedOnFailure ==
    (Settled /\ IsBareMessageBody(resp))
        => /\ resp.status >= 400
                => (FailedWithStatus(9) /\ result.v.name = "UnknownCommand")
           /\ resp.status = 200 => (Succeeded /\ result.v = resp.text.v)

C4_Witness ==
    /\ Settled /\ resp.status = 500 /\ IsBareMessageBody(resp)
    /\ FailedWithStatus(9)

\* a response that is to be followed: 3xx with a Location header
Is3xxWithLocation(response) ==
    response.status \in 300..399 /\ Len(response.location) > 0

\* C5 as stated: a followed redirect causes exactly one follow-up GET, whatever
\* the follow-up response is.
C5_OneFollowUp == Len(reqs) <= 2

\* C5 amended: every 3xx response with a Location header, the follow-up's
\* included, causes exactly one more GET to that location and no other response
\* causes a request; the command's outcome is the normalization of the first
\* response that is no such redirect.
C5_FollowsEveryRedirect ==
    /\ [](Settled => ~Is3xxWithLocation(resp))
    /\ [][tpc = "responded" =>
            IF Is3xxWithLocation(resp)
            THEN /\ Len(reqs') = Len(reqs) + 1
                 /\ reqs'[Len(reqs')].method = "GET"
                 /\ reqs'[Len(reqs')].url = resp.location[1]
                 /\ result' = Pending
            ELSE reqs' = reqs /\ result' # Pending]_vars

C5_Witness ==
    /\ Settled /\ Len(reqs) = 3
    /\ reqs[2].method = "GET" /\ reqs[3].method = "GET"
    /\ result.kind = "return"

\* the canonical kind of a status, "Error" when the taxonomy has none
KindOf(status) ==
    IF Has(status) /\ status[1] \in DOMAIN statusCodes
    THEN statusCodes[status[1]][1] ELSE "Error"

\* C9: a command whose terminal response is a failure (HTTP status >= 400 or a
\* positive envelope status) fails with an error that carries the canonical kind
\* of its status, a message prefixed with "[METHOD URL / body] " and the request.
C9_FailureIsProtocolError ==
    (/\ Settled
     /\ resp.status # 204
     /\ ParsesBody(resp) => resp.text.kind = "json"
     /\ \/ resp.status >= 400
        \/ /\ ParsesBody(resp)
           /\ resp.text.v.t = "obj"
           /\ Has(resp.text.v.status)
           /\ resp.text.v.status[1] > 0)
        => /\ Failed
           /\ Has(result.v.request)
           /\ result.v.request[1] =
                [url |-> RequestUrl(cmd), method |-> cmd.method, data |-> cmd.requestData]
           /\ result.v.name = KindOf(result.v.status)
           /\ StartsWith(result.v.message, <<"[", cmd.method>> \o RequestUrl(cmd))

\* the path template with each placeholder replaced by its encoded argument
SubstituteAll(path, pathParts) ==
    [i \in DOMAIN path |->
        IF path[i] \in Placeholders
        THEN encodeURIComponent(PathPart(pathParts, PlaceholderIndex(path[i])))
        ELSE path[i]]

\* C11: the URL of the command's request is the base URL with exactly one "/" at
\* its end followed by the path template in which every placeholder is replaced
\* by the percent-encoded argument at its index; no placeholder is left.
C11_EveryPlaceholderSubstituted ==
    Len(reqs) >= 1 =>
        /\ reqs[1].url = StripSlashes(cmd.base) \o <<"/">>
                         \o SubstituteAll(cmd.path, cmd.pathParts)
        /\ \A i \in DOMAIN reqs[1].url : reqs[1].url[i] \notin Placeholders

\* C12: the number of follow-up requests of a command stays below the number of
\* redirects the server is ready to send: the transport gives up following first.
C12_GivesUpFollowing == Len(reqs) <= MaxRedirects

\* C18: every request issued for a command, the follow-up GET of a redirect
\* included, carries the Accept header asking for JSON with a plain-text fallback.
C18_EveryRequestAccepts ==
    \A i \in DOMAIN reqs : reqs[i].Accept = Some(AcceptHeader)

\* the body as handleResponse has it in data: the parsed JSON, or undefined
DataOf(response) ==
    IF ParsesBody(response) /\ response.text.kind = "json"
    THEN response.text.v ELSE Undefined

\* C19: a terminal response that is no failure (HTTP status < 400, not 204) and
\* has no JSON content type or no body makes the command succeed with
\* {status: 0, value: null}, so the methods that read the value of the returned
\* envelope succeed too.
C19_NoBodySucceedsWithEnvelope ==
    (Settled /\ resp.status < 400 /\ resp.status # 204 /\ ~ParsesBody(resp))
        => /\ Succeeded
           /\ result.v.t = "obj"
           /\ result.v.status = Some(0)
           /\ result.v.value = Some(Null)
           /\ ThenReturnValue(result) = Return(Null)

\* the three rewriting rules, read on the data d the failure branch works on
RuleNotImplemented(response, d) == response.status = 501 /\ d.status = Some(13)
RuleUnsupportedClass(d) ==
    /\ d.status = Some(13)
    /\ Truthy(ValueOf(d))
    /\ Has(ValueOf(d).class)
    /\ \/ Contains(Get(ValueOf(d).class), <<"UnsupportedOperationException">>)
       \/ Contains(Get(ValueOf(d).class), <<"UnsupportedCommandException">>)
RuleCommandNotFound(response, d) ==
    /\ response.status = 500
    /\ Truthy(ValueOf(d))
    /\ Has(ValueOf(d).message)
    /\ \/ Contains(Get(ValueOf(d).message), <<"Command", "not", "found">>)
       \/ Contains(Get(ValueOf(d).message), <<"Unknown", "command">>)
RewrittenStatus(response, d) ==
    IF \/ RuleNotImplemented(response, d)
       \/ RuleUnsupportedClass(d)
       \/ RuleCommandNotFound(response, d)
    THEN Some(9) ELSE d.status

\* a failing terminal response whose body, if it is parsed, is JSON
IsFailingResponse(response) ==
    /\ response.status # 204
    /\ ParsesBody(response) => response.text.kind = "json"
    /\ IsFailure(response, DataOf(response))

\* C20: the error of a failing response has status 9 when the HTTP status is 501
\* and the status is 13, when the status is 13 and value.class names an
\* unsupported operation or command, and when the HTTP status is 500 and
\* value.message contains "Command not found" or "Unknown command"; otherwise it
\* has the status of the envelope (of the synthesized one, if one was built).
C20_StatusRewrittenToUnknownCommand ==
    (Settled /\ IsFailingResponse(resp))
        => /\ Failed
           /\ Has(result.v.request)
           /\ result.v.status =
                RewrittenStatus(resp, SynthesizeData(resp, DataOf(resp)))

(***************************************************************************)
(* Properties of the negotiation                                           *)
(***************************************************************************)
Negotiated == phase = "done"
BothMerged == merged = {"features", "defects"}
\* the place of a probe in the two catalogs, the features first
CatalogPlace(key) ==
    CHOOSE n \in DOMAIN (FeatureCatalog \o DefectCatalog) :
        (FeatureCatalog \o DefectCatalog)[n] = key
RunningDeferred == {k \in Keys : dpc[k] # ""}
RunningImmediate == {k \in Keys : ipc[k] # ""}

\* C1: in each batch no Deferred probe is started before every Immediate probe
\* has settled, the Deferred probes are started in catalog order, and no two of
\* them are in progress at the same time.
C1_DeferredProbesSerial ==
    /\ RunningDeferred # {} => RunningImmediate = {}
    /\ Cardinality(RunningDeferred) <= 1
    /\ \A i, j \in DOMAIN startedD :
            i < j => CatalogPlace(startedD[i]) < CatalogPlace(startedD[j])
    /\ \A i \in DOMAIN startedD :
            i < Len(startedD) => dpc[startedD[i]] = ""

\* the second Deferred probe of the defect batch is in the middle of its commands,
\* after the Immediate probes of the batch and the first Deferred probe
C1_Witness ==
    /\ phase = "addD"
    /\ Len(startedD) >= 2
    /\ dpc["brokenExecuteElementReturn"] = "getTagName"
    /\ startedD[Len(startedD)] = "brokenExecuteElementReturn"
    /\ startedD[Len(startedD) - 1] = "brokenDeleteCookie"
    /\ caps["brokenDeleteCookie"] \in {"true", "false"}
    /\ tested["brokenHtmlTagName"] \in {"true", "false"}
    /\ tested["fixedLogTypes"] \in {"false", "[]", "[logcat]"}

\* C6: whatever the probes' commands answer, when the two blank-page navigations
\* succeed both batches are merged and the session is returned.
C6_ProbesNeverFailNegotiation ==
    Negotiated /\ nav1 = "ok" /\ nav2 = "ok" => outcome = "session" /\ BothMerged

\* C7: when the initial blank-page navigation fails the negotiation fails, even
\* when the trailing navigation succeeds.
C7_InitialNavigationFailurePropagates ==
    Negotiated /\ nav1 = "failed" => outcome = "error"

\* C8 as stated: after both batches are merged the session is returned whether
\* or not the trailing navigation succeeds.
C8_TrailingFailureIgnored ==
    Negotiated /\ BothMerged => outcome = "session"

\* C8: after both batches are merged the session is returned when the trailing
\* navigation succeeds, and the negotiation fails when it fails.
C8_TrailingNavigationDecides ==
    Negotiated /\ BothMerged =>
        /\ nav2 \in {"ok", "failed"}
        /\ outcome = (IF nav2 = "ok" THEN "session" ELSE "error")

\* both batches were merged, the trailing navigation failed and so did the negotiation
C8_Witness ==
    /\ Negotiated /\ BothMerged
    /\ nav2 = "failed"
    /\ outcome = "error"

\* the literal's values laid over the map c, in key order
Override(c, pairs) ==
    [k \in Keys |-> IF OfLiteral(pairs)[k] # "none" THEN OfLiteral(pairs)[k] ELSE c[k]]
Navigations == {<<"nav1", "get:about:blank">>, <<"nav2", "get:about:blank">>}

\* C10: for safari on MAC only the two blank-page navigations are issued, and
\* the session is returned with the reported map overridden by the hardcoded
\* features and then by the hardcoded defects.
C10_SafariHardcoded ==
    IsSafariMac(reported) =>
        /\ issued \subseteq Navigations
        /\ outcome = "session" =>
                caps = Override(Override(reported, SafariFeatures), SafariDefects)


\* the place of a phase in the order of the negotiation
PhaseRank(p) ==
    CASE p = "start" -> 0
      [] p = "nav1" -> 1
      [] p = "whenAllF" -> 2
      [] p = "addF" -> 3
      [] p = "whenAllD" -> 4
      [] p = "addD" -> 5
      [] p = "nav2" -> 6
      [] OTHER -> 7
DefectCommands == {c \in issued : c[1] \in Range(DefectCatalog)}
GatedDefects ==
    {"brokenDoubleClick", "brokenLongTap", "brokenMoveFinger", "brokenTouchScroll",
     "brokenFlickFinger", "brokenElementPosition", "brokenRefresh",
     "brokenCssTransformedSize"}
InDefectBatch == phase \in {"whenAllD", "addD"}

\* the order of the phases without the requirement that none is left out
PhasesInOrder ==
    /\ [](DefectCommands # {} => "features" \in merged)
    /\ []("defects" \in merged => "features" \in merged)
    /\ [](InDefectBatch /\ ~IsSafariMac(caps) =>
            \A k \in GatedDefects : (tested[k] # "none") = InDefectCatalog(k, caps))
    /\ [][PhaseRank(phase') >= PhaseRank(phase)]_vars

\* C13: a negotiation that returns the session has gone through the initial
\* navigation, the feature batch, the feature merge, the defect batch, the defect
\* merge and the trailing navigation, in this order; no defect probe issues a
\* command before the feature values are merged, and the gates of the defect
\* batch are read on the merged values.
C13_PhasesInOrder ==
    /\ [](Negotiated /\ outcome = "session" => nav1 = "ok" /\ BothMerged)
    /\ PhasesInOrder

\* the feature whose value gates the defect probe
GateOf(key) ==
    CASE key = "brokenDoubleClick" -> "mouseEnabled"
      [] key = "brokenCssTransformedSize" -> "supportsCssTransforms"
      [] OTHER -> "touchEnabled"

\* C14: once the features are merged, a gated defect probe whose gate is falsy
\* issues no command and its key is not written: no brokenDoubleClick without
\* mouseEnabled, none of the six touch probes without touchEnabled, no
\* brokenCssTransformedSize without supportsCssTransforms.
C14_GatedProbesSkipped ==
    "features" \in merged =>
        \A k \in GatedDefects :
            ~JsTruthy(caps[GateOf(k)]) =>
                /\ \A c \in issued : c[1] # k
                /\ tested[k] = "none"
                /\ caps[k] = reported[k]

\* a session without mouse and with touch was negotiated to its end: the touch
\* probes ran and were merged, brokenDoubleClick was left out
C14_Witness ==
    /\ Negotiated /\ BothMerged /\ outcome = "session"
    /\ ~JsTruthy(caps["mouseEnabled"])
    /\ caps["brokenDoubleClick"] = "absent"
    /\ JsTruthy(caps["touchEnabled"])
    /\ caps["brokenLongTap"] \in {"true", "false"}
    /\ \E c \in issued : c[1] = "brokenTouchScroll"

\* brokenRefresh has resolved to the value written into the capabilities
RefreshProbeResolved ==
    "brokenRefresh" \in Range(startedD) /\ dpc["brokenRefresh"] = ""

\* C15: brokenRefresh is decided by what settles first: false when the refresh
\* completes before the timer fires, true when the timer fires first (and when
\* the refresh fails, by the probe's policy for failures).  A refresh that never
\* answers does not hold the probe: the timer fires and the probe resolves to
\* true; once resolved, its value does not change.
C15_RefreshRaceDecided ==
    /\ [](RefreshProbeResolved =>
            /\ refresh = "resolved" => caps["brokenRefresh"] = "false"
            /\ timer = "fired" => caps["brokenRefresh"] = "true"
            /\ refresh = "rejected" => caps["brokenRefresh"] = "true"
            /\ ~(refresh = "resolved" /\ timer = "fired"))
    /\ (dpc["brokenRefresh"] = "refresh") ~> RefreshProbeResolved
    /\ [][RefreshProbeResolved =>
            RefreshProbeResolved' /\ caps'["brokenRefresh"] = caps["brokenRefresh"]]_vars

\* the timer fired on a refresh that had not answered; the probe resolved to true
\* and the negotiation went on to its end
C15_Witness ==
    /\ RefreshProbeResolved
    /\ timer = "fired"
    /\ caps["brokenRefresh"] = "true"
    /\ Negotiated /\ BothMerged

\* C16: once brokenRefresh has resolved neither the timer nor the refresh is
\* left: the timer is cleared when the refresh settled first, the refresh is
\* cancelled when the timer fired first.
C16_RaceLoserCleanedUp ==
    RefreshProbeResolved =>
        /\ timer # "scheduled"
        /\ refresh # "pending"
        /\ refresh \in {"resolved", "rejected"} => timer = "cleared"
        /\ timer = "fired" => refresh = "cancelled"

\* the refresh completed before the timer fired and the timer was cleared
C16_Witness ==
    /\ RefreshProbeResolved
    /\ refresh = "resolved"
    /\ timer = "cleared"
    /\ caps["brokenRefresh"] = "false"

\* C17: when every command is answered, brokenDoubleClick resolves to a value and
\* the negotiation reaches its end, even if the counter reads 0 at every attempt.
C17_DoubleClickRetryBounded ==
    (dpc["brokenDoubleClick"] # "") ~> (dpc["brokenDoubleClick"] = "" /\ <>Negotiated)

ProbedUnlessReported == {"rotatable", "mouseEnabled", "touchEnabled", "dynamicViewport"}
ProbedIfReported ==
    {"locationContextEnabled", "webStorageEnabled", "applicationCacheEnabled"}

\* C21: outside safari on MAC, a reported rotatable, mouseEnabled, touchEnabled
\* or dynamicViewport is never probed and keeps the reported value; a
\* locationContextEnabled, webStorageEnabled or applicationCacheEnabled that is
\* reported false or not reported is not probed and never becomes true.
C21_FeatureGuardsRespectReport ==
    ~IsSafariMac(reported) =>
        /\ \A k \in ProbedUnlessReported :
                reported[k] # "absent" =>
                    /\ \A c \in issued : c[1] # k
                    /\ caps[k] = reported[k]
        /\ \A k \in ProbedIfReported :
                reported[k] \in {"false", "absent"} =>
                    /\ \A c \in issued : c[1] # k
                    /\ caps[k] = reported[k]
                    /\ caps[k] # "true"

\* a session that reported rotatable, mouseEnabled false and
\* locationContextEnabled false was negotiated to its end with these values
C21_Witness ==
    /\ Negotiated /\ BothMerged /\ outcome = "session"
    /\ ~IsSafariMac(reported)
    /\ reported["rotatable"] = "true" /\ caps["rotatable"] = "true"
    /\ reported["mouseEnabled"] = "false" /\ caps["mouseEnabled"] = "false"
    /\ reported["locationContextEnabled"] = "false"
    /\ caps["locationContextEnabled"] = "false"
    /\ reported["webStorageEnabled"] = "absent" /\ caps["webStorageEnabled"] = "absent"
    /\ \E c \in issued : c[1] = "takesScreenshot"

\* the probe of supportsNavigationDataUris has resolved and false was written
DataUrisMergedFalse ==
    /\ "supportsNavigationDataUris" \in Range(startedD)
    /\ dpc["supportsNavigationDataUris"] = ""
    /\ caps["supportsNavigationDataUris"] = "false"

\* the probes that enter a page load in this step
LoadingPage(pc) == {k \in Keys : dpc'[k] # dpc[k] /\ dpc'[k] = pc}

\* C22 as stated: a page load goes to about:blank and document.write once the
\* probe of supportsNavigationDataUris has been merged as false, and is a single
\* data: navigation as long as it has not.
C22_DataUriUntilMergedFalse ==
    [][/\ LoadingPage("get:blank") # {} => DataUrisMergedFalse'
       /\ LoadingPage("get:data") # {} => ~DataUrisMergedFalse']_vars

\* C22: a page load goes to about:blank and then document.write when the
\* capability map holds false for supportsNavigationDataUris at the time of the
\* load (merged by the probe, or reported by the server before any probe ran),
\* and is a single data: navigation when it holds true or nothing; once the
\* probe has merged false no data: navigation is issued any more.
C22_PageLoadFollowsCapability ==
    [][/\ LoadingPage("get:blank") # {} =>
            caps'["supportsNavigationDataUris"] = "false"
       /\ LoadingPage("get:data") # {} =>
            /\ caps'["supportsNavigationDataUris"] # "false"
            /\ ~DataUrisMergedFalse'
       /\ \A k \in LoadingPage("execute:write") : dpc[k] = "get:blank"
       /\ \A k \in Keys :
            dpc[k] = "get:blank" /\ dpc'[k] # dpc[k] /\ dpc'[k] \in PageLoads =>
                dpc'[k] = "execute:write"
       /\ \A k \in Keys :
            dpc[k] = "get:data" /\ dpc'[k] # dpc[k] => dpc'[k] \notin PageLoads
       /\ DataUrisMergedFalse => DataUrisMergedFalse']_vars

\* the probe found data: navigations unsupported, false was merged, and the next
\* probe loads its page through about:blank and document.write
C22_Witness ==
    /\ reported["supportsNavigationDataUris"] = "absent"
    /\ DataUrisMergedFalse
    /\ <<"supportsNavigationDataUris", "get:data">> \in issued
    /\ dpc["supportsCssTransforms"] = "execute:write"
    /\ <<"supportsCssTransforms", "get:blank">> \in issued
    /\ <<"supportsCssTransforms", "get:data">> \notin issued

====
